---- MODULE Spec2Model ----
(***************************************************************************)
(* Model of managers/go/gocrypto/ecdsakey.go: the ECDSA private and public *)
(* key handles, their three construction paths (generated, native key,     *)
(* PEM block) and their methods.                                           *)
(*                                                                         *)
(* The elliptic-curve arithmetic is replaced by a prime-order subgroup of  *)
(* Z_P^* (so that keys, signatures and verification are computed, not      *)
(* assumed), and DER by sequences of naturals in which every number >= 100 *)
(* is an object identifier and every smaller number an INTEGER / OCTET     *)
(* STRING / BIT STRING content.                                            *)
(***************************************************************************)
EXTENDS Integers, Sequences, FiniteSets, TLC

\* heap:   the handles constructed so far; a pointer is an index into it
\* last:   the last call made: operation, receiver (for a FromPEM constructor
\*         the handle whose PEMWrite wrote the block, if any), argument,
\*         result, error
\* origin: for a handle built from a PEM block that the preceding PEMWrite
\*         wrote, the handle that wrote it; Nil for every other handle
VARIABLES heap, last, origin

vars == <<heap, last, origin>>

----------------------------------------------------------------------------
(* Bounds of the exploration *)

\* most handles the callers construct
MaxHandles == 2

----------------------------------------------------------------------------
(* crypto/elliptic, crypto/ecdsa: the provider *)

\* elliptic.P256() / elliptic.P384(): Params().BitSize, and the toy group
\* <G> of prime order N in Z_P^*
Params(curve) ==
  CASE curve = "P-256" -> [Name |-> "P-256", BitSize |-> 256, P |-> 23, N |-> 11, G |-> 2]
    [] curve = "P-384" -> [Name |-> "P-384", BitSize |-> 384, P |-> 47, N |-> 23, G |-> 2]

Curves == {"P-256", "P-384"}

RECURSIVE Pow(_, _, _)
Pow(b, e, m) == IF e = 0 THEN 1 % m ELSE (b * Pow(b, e - 1, m)) % m

Inv(x, n) == CHOOSE y \in 1..(n - 1) : (x * y) % n = 1

\* curve.ScalarBaseMult(d)
ScalarBaseMult(curve, d) == Pow(Params(curve).G, d, Params(curve).P)

\* a point of the curve: an element of the subgroup other than the identity's
\* preimage 0
IsOnCurve(curve, y) ==
  /\ y \in 1..(Params(curve).P - 1)
  /\ Pow(y, Params(curve).N, Params(curve).P) = 1

\* *ecdsa.PublicKey / *ecdsa.PrivateKey (the private key embeds its PublicKey)
ECPublicKey(curve, y) == [T |-> "*ecdsa.PublicKey", Curve |-> curve, Y |-> y]

ECPrivateKey(curve, d) ==
  [T |-> "*ecdsa.PrivateKey", PublicKey |-> ECPublicKey(curve, ScalarBaseMult(curve, d)), D |-> d]

\* keys of the other algorithm families x509 can decode
RSAPrivateKey(n, d) == [T |-> "*rsa.PrivateKey", N |-> n, E |-> 3, D |-> d]
RSAPublicKey(n) == [T |-> "*rsa.PublicKey", N |-> n, E |-> 3]
Ed25519PrivateKey(seed) == [T |-> "ed25519.PrivateKey", Seed |-> seed]

\* ecdsa.GenerateKey(c, rand): d is what the entropy source yields
GenerateKey(curve, d) == ECPrivateKey(curve, d)

\* ecdsa signature of digest z under nonce k: (r, s); r = 0 or s = 0 makes
\* the signer draw another nonce
SignRS(key, z, k) ==
  LET c == Params(key.PublicKey.Curve)
      r == Pow(c.G, k, c.P) % c.N
      s == (Inv(k, c.N) * (z + r * key.D)) % c.N
  IN <<r, s>>

\* ecdsa.Verify(pub, digest, r, s)
Verify(pub, z, sig) ==
  LET c == Params(pub.Curve)
      r == sig[1]
      s == sig[2]
  IN /\ r \in 1..(c.N - 1)
     /\ s \in 1..(c.N - 1)
     /\ LET w == Inv(s, c.N)
            u1 == (z * w) % c.N
            u2 == (r * w) % c.N
        IN ((Pow(c.G, u1, c.P) * Pow(pub.Y, u2, c.P)) % c.P) % c.N = r

----------------------------------------------------------------------------
(* crypto/x509, encoding/pem: the codec *)

OID == [ecdsa |-> 101, rsa |-> 102, ed25519 |-> 103, dsa |-> 104,
        p256 |-> 201, p384 |-> 202, p224 |-> 203]

IsOID(x) == x >= 100

\* namedCurveFromOID / oidFromNamedCurve; "" is the nil curve
namedCurveFromOID(oid) ==
  IF oid = OID.p256 THEN "P-256" ELSE IF oid = OID.p384 THEN "P-384" ELSE ""

oidFromNamedCurve(curve) == IF curve = "P-256" THEN OID.p256 ELSE OID.p384

\* error values: a format and the value formatted into it; the nil error
Errorf(fmt, arg) == [fmt |-> fmt, arg |-> arg]
NilErr == Errorf("", "")
x509Error(msg) == Errorf(msg, "")

\* ECPrivateKey ::= SEQUENCE { version INTEGER, privateKey OCTET STRING,
\*   parameters [0] OID OPTIONAL (0 when absent), publicKey [1] BIT STRING }
isECPrivateKeyDER(der) ==
  /\ Len(der) = 4
  /\ ~IsOID(der[1]) /\ ~IsOID(der[2]) /\ ~IsOID(der[4])
  /\ (der[3] = 0 \/ IsOID(der[3]))

\* RSAPrivateKey (PKCS#1) ::= SEQUENCE { version, modulus, publicExponent,
\*   privateExponent }
isPKCS1PrivateKeyDER(der) ==
  /\ Len(der) = 4
  /\ \A i \in 1..4 : ~IsOID(der[i])
  /\ der[1] = 0

\* PrivateKeyInfo (PKCS#8) ::= SEQUENCE { version INTEGER,
\*   AlgorithmIdentifier { algorithm OID, parameters }, privateKey OCTET STRING }
isPKCS8DER(der) ==
  /\ Len(der) >= 4
  /\ ~IsOID(der[1])
  /\ IsOID(der[2])
  /\ (der[3] = 0 \/ IsOID(der[3]))

\* SubjectPublicKeyInfo (PKIX) ::= SEQUENCE { AlgorithmIdentifier { algorithm
\*   OID, parameters }, subjectPublicKey BIT STRING }
isPKIXDER(der) ==
  /\ Len(der) >= 3
  /\ IsOID(der[1])
  /\ (der[2] = 0 \/ IsOID(der[2]))
  /\ \A i \in 3..Len(der) : ~IsOID(der[i])

\* RSAPublicKey (PKCS#1) ::= SEQUENCE { modulus, publicExponent }
isPKCS1PublicKeyDER(der) ==
  /\ Len(der) = 2
  /\ ~IsOID(der[1]) /\ ~IsOID(der[2])

\* x509.MarshalECPrivateKey / marshalECPrivateKeyWithOID
marshalECPrivateKeyWithOID(key, oid) == <<1, key.D, oid, key.PublicKey.Y>>
MarshalECPrivateKey(key) ==
  marshalECPrivateKeyWithOID(key, oidFromNamedCurve(key.PublicKey.Curve))

\* x509.MarshalPKCS8PrivateKey
MarshalPKCS8PrivateKey(key) ==
  CASE key.T = "*ecdsa.PrivateKey" ->
         <<0, OID.ecdsa, oidFromNamedCurve(key.PublicKey.Curve)>>
           \o marshalECPrivateKeyWithOID(key, 0)
    [] key.T = "*rsa.PrivateKey" -> <<0, OID.rsa, 0, 0, key.N, key.E, key.D>>
    [] key.T = "ed25519.PrivateKey" -> <<0, OID.ed25519, 0, key.Seed>>

\* x509.MarshalPKIXPublicKey
MarshalPKIXPublicKey(pub) ==
  CASE pub.T = "*ecdsa.PublicKey" -> <<OID.ecdsa, oidFromNamedCurve(pub.Curve), pub.Y>>
    [] pub.T = "*rsa.PublicKey" -> <<OID.rsa, 0, pub.N, pub.E>>

\* x509.parseECPrivateKey(namedCurveOID, der); namedCurveOID = 0 is nil.
\* The public point is recomputed from the scalar, not read from the DER.
parseECPrivateKey(namedCurveOID, der) ==
  IF ~isECPrivateKeyDER(der)
  THEN IF isPKCS8DER(der)
       THEN [key |-> <<>>, err |-> x509Error("x509: failed to parse private key (use ParsePKCS8PrivateKey instead for this key format)")]
       ELSE IF isPKCS1PrivateKeyDER(der)
       THEN [key |-> <<>>, err |-> x509Error("x509: failed to parse private key (use ParsePKCS1PrivateKey instead for this key format)")]
       ELSE [key |-> <<>>, err |-> x509Error("x509: failed to parse EC private key")]
  ELSE IF der[1] # 1
  THEN [key |-> <<>>, err |-> x509Error("x509: unknown EC private key version")]
  ELSE LET curve == namedCurveFromOID(IF namedCurveOID # 0 THEN namedCurveOID ELSE der[3])
       IN IF curve = ""
          THEN [key |-> <<>>, err |-> x509Error("x509: unknown elliptic curve")]
          ELSE IF der[2] >= Params(curve).N \/ der[2] = 0
          THEN [key |-> <<>>, err |-> x509Error("x509: invalid elliptic curve private key value")]
          ELSE [key |-> ECPrivateKey(curve, der[2]), err |-> NilErr]

\* x509.ParseECPrivateKey(der)
ParseECPrivateKey(der) == parseECPrivateKey(0, der)

\* x509.ParsePKCS8PrivateKey(der)
ParsePKCS8PrivateKey(der) ==
  IF ~isPKCS8DER(der)
  THEN IF isECPrivateKeyDER(der)
       THEN [key |-> <<>>, err |-> x509Error("x509: failed to parse private key (use ParseECPrivateKey instead for this key format)")]
       ELSE IF isPKCS1PrivateKeyDER(der)
       THEN [key |-> <<>>, err |-> x509Error("x509: failed to parse private key (use ParsePKCS1PrivateKey instead for this key format)")]
       ELSE [key |-> <<>>, err |-> x509Error("asn1: structure error")]
  ELSE LET inner == SubSeq(der, 4, Len(der))
       IN CASE der[2] = OID.rsa ->
                 IF isPKCS1PrivateKeyDER(inner)
                 THEN [key |-> RSAPrivateKey(inner[2], inner[4]), err |-> NilErr]
                 ELSE [key |-> <<>>, err |-> x509Error("x509: failed to parse RSA private key embedded in PKCS#8")]
            [] der[2] = OID.ecdsa ->
                 LET r == parseECPrivateKey(der[3], inner)
                 IN IF r.err # NilErr
                    THEN [key |-> <<>>, err |-> x509Error("x509: failed to parse EC private key embedded in PKCS#8")]
                    ELSE r
            [] der[2] = OID.ed25519 ->
                 IF der[3] = 0 /\ Len(inner) = 1
                 THEN [key |-> Ed25519PrivateKey(inner[1]), err |-> NilErr]
                 ELSE [key |-> <<>>, err |-> x509Error("x509: invalid Ed25519 private key")]
            [] OTHER ->
                 [key |-> <<>>, err |-> x509Error("x509: PKCS#8 wrapping contained private key with unknown algorithm")]

\* x509.ParsePKIXPublicKey(der)
ParsePKIXPublicKey(der) ==
  IF ~isPKIXDER(der)
  THEN IF isPKCS1PublicKeyDER(der)
       THEN [key |-> <<>>, err |-> x509Error("x509: failed to parse public key (use ParsePKCS1PublicKey instead for this key format)")]
       ELSE [key |-> <<>>, err |-> x509Error("asn1: structure error")]
  ELSE CASE der[1] = OID.rsa ->
              IF Len(der) = 4 /\ der[3] > 0 /\ der[4] > 0
              THEN [key |-> RSAPublicKey(der[3]), err |-> NilErr]
              ELSE [key |-> <<>>, err |-> x509Error("x509: invalid RSA public key")]
         [] der[1] = OID.ecdsa ->
              LET curve == namedCurveFromOID(der[2])
              IN IF curve = ""
                 THEN [key |-> <<>>, err |-> x509Error("x509: unsupported elliptic curve")]
                 ELSE IF Len(der) # 3 \/ ~IsOnCurve(curve, der[3])
                 THEN [key |-> <<>>, err |-> x509Error("x509: failed to unmarshal elliptic curve point")]
                 ELSE [key |-> ECPublicKey(curve, der[3]), err |-> NilErr]
         [] OTHER ->
              [key |-> <<>>, err |-> x509Error("x509: unknown public key algorithm")]

\* pem.Block
Block(type, bytes) == [Type |-> type, Bytes |-> bytes]

----------------------------------------------------------------------------
(* utils/cryptoutils: PEM export of native keys *)

\* cryptoutils.ECDSAPublicKeyToPEM(w, key): what is written onto w
ECDSAPublicKeyToPEM(key) == <<Block("PUBLIC KEY", MarshalPKIXPublicKey(key))>>

\* cryptoutils.ECDSAPrivateKeyToPEM(w, key, public): what is written onto w.
\* form is the private encoding the codec uses, PKCS#8 or the EC-specific one.
ECDSAPrivateKeyToPEM(key, public, form) ==
  <<IF form = "PKCS8"
    THEN Block("PRIVATE KEY", MarshalPKCS8PrivateKey(key))
    ELSE Block("EC PRIVATE KEY", MarshalECPrivateKey(key))>>
    \o (IF public THEN ECDSAPublicKeyToPEM(key.PublicKey) ELSE <<>>)

PrivateForms == {"PKCS8", "SEC1"}

----------------------------------------------------------------------------
(* interfaces/ifcrypto: key types; KeyBase *)

KeyTypes == {"KeyTypeRsa", "KeyTypeEcdsa", "KeyTypeSymmetric"}

\* the algorithm family of a native key
KeyTypeOf(key) ==
  CASE key.T \in {"*ecdsa.PrivateKey", "*ecdsa.PublicKey"} -> "KeyTypeEcdsa"
    [] key.T \in {"*rsa.PrivateKey", "*rsa.PublicKey"} -> "KeyTypeRsa"
    [] OTHER -> "KeyTypeSymmetric"

\* the nil pointer
Nil == 0

----------------------------------------------------------------------------
(* ecdsakey.go: constructors.  Each takes the heap and returns the heap   *)
(* after the call, the pointer returned (Nil for nil) and the error.      *)

\* key.Params().BitSize
BitSize(key) == Params(key.Curve).BitSize

\* NewECDSAPublicKeyFromKey recording the size of P-256 whatever the curve
NewECDSAPublicKeyFromKey_FixedSize(h, id, key, usage) ==
  [heap |-> Append(h, [kind |-> "ECDSAPublicKey",
                       KeyBase |-> [id |-> id,
                                    keyType |-> "KeyTypeRsa",
                                    keySize |-> 256,
                                    usage |-> usage,
                                    chiper |-> <<>>],
                       key |-> key]),
   ret |-> Len(h) + 1,
   err |-> NilErr]

NewECDSAPublicKeyFromKey(h, id, key, usage) ==
  [heap |-> Append(h, [kind |-> "ECDSAPublicKey",
                       KeyBase |-> [id |-> id,
                                    keyType |-> "KeyTypeRsa",
                                    keySize |-> BitSize(key),
                                    usage |-> usage,
                                    chiper |-> <<>>],
                       key |-> key]),
   ret |-> Len(h) + 1,
   err |-> NilErr]

\* NewECDSAPrivateKeyFromKey deriving the public handle without the usage
NewECDSAPrivateKeyFromKey_NoUsage(h, id, key, usage) ==
  LET pub == NewECDSAPublicKeyFromKey(h, id, key.PublicKey, <<>>)
  IN [heap |-> Append(pub.heap, [kind |-> "ECDSAPrivateKey",
                                 KeyBase |-> [id |-> id,
                                              keyType |-> "KeyTypeRsa",
                                              keySize |-> BitSize(key.PublicKey),
                                              usage |-> usage,
                                              chiper |-> <<>>],
                                 key |-> key,
                                 public |-> pub.ret]),
      ret |-> Len(pub.heap) + 1,
      err |-> NilErr]

NewECDSAPrivateKeyFromKey(h, id, key, usage) ==
  LET pub == NewECDSAPublicKeyFromKey(h, id, key.PublicKey, usage)
  IN [heap |-> Append(pub.heap, [kind |-> "ECDSAPrivateKey",
                                 KeyBase |-> [id |-> id,
                                              keyType |-> "KeyTypeRsa",
                                              keySize |-> BitSize(key.PublicKey),
                                              usage |-> usage,
                                              chiper |-> <<>>],
                                 key |-> key,
                                 public |-> pub.ret]),
      ret |-> Len(pub.heap) + 1,
      err |-> NilErr]

\* NewECDSAPrivateKeyFromPEM with the id, not the label, formatted into the
\* unsupported-block error
NewECDSAPrivateKeyFromPEM_WrongArg(h, block, id, usage) ==
  IF block.Type = "PRIVATE KEY"
  THEN LET p == ParsePKCS8PrivateKey(block.Bytes)
       IN IF p.err # NilErr
          THEN [heap |-> h, ret |-> Nil, err |-> p.err]
          ELSE IF p.key.T = "*ecdsa.PrivateKey"
          THEN NewECDSAPrivateKeyFromKey(h, id, p.key, usage)
          ELSE [heap |-> h, ret |-> Nil, err |-> Errorf("not a *ecdsa.PrivateKey: %T", p.key.T)]
  ELSE IF block.Type = "EC PRIVATE KEY"
  THEN LET p == ParseECPrivateKey(block.Bytes)
       IN IF p.err # NilErr
          THEN [heap |-> h, ret |-> Nil, err |-> p.err]
          ELSE NewECDSAPrivateKeyFromKey(h, id, p.key, usage)
  ELSE [heap |-> h, ret |-> Nil, err |-> Errorf("unsupported PEM block: %s", id)]

\* NewECDSAPrivateKeyFromPEM without the return of the type-mismatch error:
\* a PKCS#8 key of another family falls through to the final return
NewECDSAPrivateKeyFromPEM_FallThrough(h, block, id, usage) ==
  IF block.Type = "PRIVATE KEY"
       /\ ParsePKCS8PrivateKey(block.Bytes).err # NilErr
  THEN [heap |-> h, ret |-> Nil, err |-> ParsePKCS8PrivateKey(block.Bytes).err]
  ELSE IF block.Type = "PRIVATE KEY"
       /\ ParsePKCS8PrivateKey(block.Bytes).key.T = "*ecdsa.PrivateKey"
  THEN NewECDSAPrivateKeyFromKey(h, id, ParsePKCS8PrivateKey(block.Bytes).key, usage)
  ELSE IF block.Type = "EC PRIVATE KEY"
  THEN LET p == ParseECPrivateKey(block.Bytes)
       IN IF p.err # NilErr
          THEN [heap |-> h, ret |-> Nil, err |-> p.err]
          ELSE NewECDSAPrivateKeyFromKey(h, id, p.key, usage)
  ELSE [heap |-> h, ret |-> Nil, err |-> Errorf("unsupported PEM block: %s", block.Type)]

\* NewECDSAPrivateKeyFromPEM comparing the PKCS#8 label without regard to case
NewECDSAPrivateKeyFromPEM_FoldCase(h, block, id, usage) ==
  IF block.Type \in {"PRIVATE KEY", "private key"}
  THEN LET p == ParsePKCS8PrivateKey(block.Bytes)
       IN IF p.err # NilErr
          THEN [heap |-> h, ret |-> Nil, err |-> p.err]
          ELSE IF p.key.T = "*ecdsa.PrivateKey"
          THEN NewECDSAPrivateKeyFromKey(h, id, p.key, usage)
          ELSE [heap |-> h, ret |-> Nil, err |-> Errorf("not a *ecdsa.PrivateKey: %T", p.key.T)]
  ELSE IF block.Type = "EC PRIVATE KEY"
  THEN LET p == ParseECPrivateKey(block.Bytes)
       IN IF p.err # NilErr
          THEN [heap |-> h, ret |-> Nil, err |-> p.err]
          ELSE NewECDSAPrivateKeyFromKey(h, id, p.key, usage)
  ELSE [heap |-> h, ret |-> Nil, err |-> Errorf("unsupported PEM block: %s", block.Type)]

\* NewECDSAPrivateKeyFromPEM decoding "EC PRIVATE KEY" as PKCS#8 too
NewECDSAPrivateKeyFromPEM_OneDecoder(h, block, id, usage) ==
  IF block.Type = "PRIVATE KEY" \/ block.Type = "EC PRIVATE KEY"
  THEN LET p == ParsePKCS8PrivateKey(block.Bytes)
       IN IF p.err # NilErr
          THEN [heap |-> h, ret |-> Nil, err |-> p.err]
          ELSE IF p.key.T = "*ecdsa.PrivateKey"
          THEN NewECDSAPrivateKeyFromKey(h, id, p.key, usage)
          ELSE [heap |-> h, ret |-> Nil, err |-> Errorf("not a *ecdsa.PrivateKey: %T", p.key.T)]
  ELSE [heap |-> h, ret |-> Nil, err |-> Errorf("unsupported PEM block: %s", block.Type)]

NewECDSAPrivateKeyFromPEM(h, block, id, usage) ==
  IF block.Type = "PRIVATE KEY"
  THEN LET p == ParsePKCS8PrivateKey(block.Bytes)
       IN IF p.err # NilErr
          THEN [heap |-> h, ret |-> Nil, err |-> p.err]
          ELSE IF p.key.T = "*ecdsa.PrivateKey"
          THEN NewECDSAPrivateKeyFromKey(h, id, p.key, usage)
          ELSE [heap |-> h, ret |-> Nil, err |-> Errorf("not a *ecdsa.PrivateKey: %T", p.key.T)]
  ELSE IF block.Type = "EC PRIVATE KEY"
  THEN LET p == ParseECPrivateKey(block.Bytes)
       IN IF p.err # NilErr
          THEN [heap |-> h, ret |-> Nil, err |-> p.err]
          ELSE NewECDSAPrivateKeyFromKey(h, id, p.key, usage)
  ELSE [heap |-> h, ret |-> Nil, err |-> Errorf("unsupported PEM block: %s", block.Type)]

\* bits is not read; d is what rand.Reader yields, ok whether reading it succeeded
NewECDSAPrivateKey(h, id, bits, usage, d, ok) ==
  IF ~ok
  THEN [heap |-> h, ret |-> Nil, err |-> Errorf("rand: read failed", "")]
  ELSE NewECDSAPrivateKeyFromKey(h, id, GenerateKey("P-256", d), usage)

NewECDSAPublicKeyFromPEM(h, block, id, usage) ==
  IF block.Type = "PUBLIC KEY" \/ block.Type = "EC PUBLIC KEY"
  THEN LET p == ParsePKIXPublicKey(block.Bytes)
       IN IF p.err # NilErr
          THEN [heap |-> h, ret |-> Nil, err |-> p.err]
          ELSE IF p.key.T = "*ecdsa.PublicKey"
          THEN NewECDSAPublicKeyFromKey(h, id, p.key, usage)
          ELSE [heap |-> h, ret |-> Nil, err |-> Errorf("not a *ecdsa.PublicKey: %T", p.key.T)]
  ELSE [heap |-> h, ret |-> Nil, err |-> Errorf("unsupported PEM block: %s", block.Type)]

----------------------------------------------------------------------------
(* ecdsakey.go: methods.  Each takes the heap and the receiver and returns *)
(* the heap after the call and what the method returns.                    *)

\* (r *ECDSAPrivateKey) Sign: k is the nonce drawn from rand
Sign(h, r, digest, k) == [heap |-> h, ret |-> SignRS(h[r].key, digest, k), err |-> NilErr]

\* GetPublic deriving the public handle anew on every call and caching it
GetPublic_Lazy(h, r) ==
  LET pub == NewECDSAPublicKeyFromKey(h, h[r].KeyBase.id, h[r].key.PublicKey, h[r].KeyBase.usage)
  IN [heap |-> [pub.heap EXCEPT ![r].public = pub.ret], ret |-> pub.ret]

\* (r *ECDSAPrivateKey) GetPublic
GetPublic(h, r) == [heap |-> h, ret |-> h[r].public]

\* (r *ECDSAPrivateKey) PEMWrite
PrivatePEMWrite(h, r, public, form) ==
  [heap |-> h, ret |-> ECDSAPrivateKeyToPEM(h[r].key, public, form), err |-> NilErr]

\* (r *ECDSAPrivateKey) GetKey
PrivateGetKey(h, r) == [heap |-> h, ret |-> h[r].key]

\* (r *ECDSAPrivateKey) IsSymmetric
PrivateIsSymmetric(h, r) == [heap |-> h, ret |-> FALSE]

\* (r *ECDSAPrivateKey) IsPrivate
PrivateIsPrivate(h, r) == [heap |-> h, ret |-> TRUE]

\* (r *ECDSAPrivateKey) IsRemoteKey
PrivateIsRemoteKey(h, r) == [heap |-> h, ret |-> FALSE]

\* (r *ECDSAPublicKey) PEMWrite: the public parameter is ignored
PublicPEMWrite(h, r, public) ==
  [heap |-> h, ret |-> ECDSAPublicKeyToPEM(h[r].key), err |-> NilErr]

\* (r *ECDSAPublicKey) GetKey
PublicGetKey(h, r) == [heap |-> h, ret |-> h[r].key]

\* (r *ECDSAPublicKey) IsSymmetric
PublicIsSymmetric(h, r) == [heap |-> h, ret |-> FALSE]

\* (r *ECDSAPublicKey) IsPrivate
PublicIsPrivate(h, r) == [heap |-> h, ret |-> TRUE]

\* (r *ECDSAPublicKey) IsRemoteKey
PublicIsRemoteKey(h, r) == [heap |-> h, ret |-> FALSE]

----------------------------------------------------------------------------
(* The callers: inputs *)

\* id and usage a caller constructs a handle with
Callers == {[id |-> "k1", usage |-> <<"Sign">>],
            [id |-> "k2", usage |-> <<"Sign", "Verify">>]}

\* the bits argument of NewECDSAPrivateKey
BitsInputs == {256, 384}

\* what the entropy source yields as private scalar, and as signing nonce
Scalars == {2}
Nonces == {1, 2}

\* digests handed to Sign
Digests == {3, 5}

\* native keys handed to the FromKey constructors
NativeKeys == {ECPrivateKey("P-384", 3)}

\* PEM labels: the four the constructors know, and others differing from
\* them in case, in whitespace and altogether
Labels == {"PRIVATE KEY", "EC PRIVATE KEY", "PUBLIC KEY", "EC PUBLIC KEY",
           "CERTIFICATE", "private key", "PUBLIC KEY "}

\* PEM payloads: the three encodings of an EC key, keys of other families,
\* and malformed bytes
Payloads ==
  {MarshalECPrivateKey(k) : k \in NativeKeys}
    \cup {MarshalPKCS8PrivateKey(k) : k \in NativeKeys}
    \cup {MarshalPKIXPublicKey(k.PublicKey) : k \in NativeKeys}
    \cup {MarshalPKCS8PrivateKey(RSAPrivateKey(33, 7)),
          MarshalPKCS8PrivateKey(Ed25519PrivateKey(9)),
          MarshalPKIXPublicKey(RSAPublicKey(33)),
          <<1, 2, OID.p224, 4>>,
          <<OID.ecdsa, OID.p256, 5>>,
          <<>>}

\* every label on every payload
AllBlocks == {Block(t, b) : t \in Labels, b \in Payloads}

\* the blocks a caller of the whole library hands in
InputBlocks ==
  {Block("EC PRIVATE KEY", MarshalECPrivateKey(k)) : k \in NativeKeys}
    \cup {Block("PRIVATE KEY", MarshalPKCS8PrivateKey(k)) : k \in NativeKeys}
    \cup {Block("PUBLIC KEY", MarshalPKIXPublicKey(k.PublicKey)) : k \in NativeKeys}
    \cup {Block("PRIVATE KEY", MarshalPKCS8PrivateKey(RSAPrivateKey(33, 7))),
          Block("CERTIFICATE", <<>>)}

Range(s) == {s[i] : i \in DOMAIN s}

Privates(h) == {a \in DOMAIN h : h[a].kind = "ECDSAPrivateKey"}
Publics(h) == {a \in DOMAIN h : h[a].kind = "ECDSAPublicKey"}

Call(op, self, arg, ret, err) ==
  [op |-> op, self |-> self, arg |-> arg, ret |-> ret, err |-> err]

\* the blocks the preceding call wrote, if it was a PEMWrite
Written == IF last.op \in {"ECDSAPrivateKey.PEMWrite", "ECDSAPublicKey.PEMWrite"}
           THEN Range(last.ret) ELSE {}

\* handles constructed by a caller: every object but the public handles that
\* the private constructors derive
Handles(h) == Len(h) - Cardinality(Privates(h))

\* origin after a constructor call that took the heap to h: src for the new handles
Originate(h, src) == [a \in DOMAIN h |-> IF a \in DOMAIN origin THEN origin[a] ELSE src]

----------------------------------------------------------------------------
(* The state machine *)

Init ==
  /\ heap = <<>>
  /\ origin = <<>>
  /\ last = Call("init", Nil, <<>>, Nil, NilErr)

CallNewECDSAPrivateKey ==
  \E c \in Callers, bits \in BitsInputs, d \in Scalars, ok \in BOOLEAN :
    LET r == NewECDSAPrivateKey(heap, c.id, bits, c.usage, d, ok)
    IN /\ Handles(r.heap) <= MaxHandles
       /\ heap' = r.heap
       /\ origin' = Originate(r.heap, Nil)
       /\ last' = Call("NewECDSAPrivateKey", Nil, bits, r.ret, r.err)

CallNewECDSAPrivateKeyFromKey ==
  \E c \in Callers, key \in NativeKeys :
    LET r == NewECDSAPrivateKeyFromKey(heap, c.id, key, c.usage)
    IN /\ Handles(r.heap) <= MaxHandles
       /\ heap' = r.heap
       /\ origin' = Originate(r.heap, Nil)
       /\ last' = Call("NewECDSAPrivateKeyFromKey", Nil, key, r.ret, r.err)

CallNewECDSAPublicKeyFromKey ==
  \E c \in Callers, key \in NativeKeys :
    LET r == NewECDSAPublicKeyFromKey(heap, c.id, key.PublicKey, c.usage)
    IN /\ Handles(r.heap) <= MaxHandles
       /\ heap' = r.heap
       /\ origin' = Originate(r.heap, Nil)
       /\ last' = Call("NewECDSAPublicKeyFromKey", Nil, key.PublicKey, r.ret, r.err)

CallNewECDSAPrivateKeyFromPEM(blocks) ==
  \E c \in Callers, src \in {Nil, last.self} :
    \E block \in (IF src = Nil THEN blocks ELSE Written) :
      LET r == NewECDSAPrivateKeyFromPEM(heap, block, c.id, c.usage)
      IN /\ Handles(r.heap) <= MaxHandles
         /\ heap' = r.heap
         /\ origin' = Originate(r.heap, src)
         /\ last' = Call("NewECDSAPrivateKeyFromPEM", src, block, r.ret, r.err)

CallNewECDSAPublicKeyFromPEM(blocks) ==
  \E c \in Callers, src \in {Nil, last.self} :
    \E block \in (IF src = Nil THEN blocks ELSE Written) :
      LET r == NewECDSAPublicKeyFromPEM(heap, block, c.id, c.usage)
      IN /\ Handles(r.heap) <= MaxHandles
         /\ heap' = r.heap
         /\ origin' = Originate(r.heap, src)
         /\ last' = Call("NewECDSAPublicKeyFromPEM", src, block, r.ret, r.err)

CallSign ==
  \E self \in Privates(heap), digest \in Digests, k \in Nonces :
    LET r == Sign(heap, self, digest, k)
    IN /\ r.ret[1] # 0 /\ r.ret[2] # 0
       /\ heap' = r.heap
       /\ last' = Call("ECDSAPrivateKey.Sign", self, digest, r.ret, r.err)
       /\ UNCHANGED origin

CallGetPublic ==
  \E self \in Privates(heap) :
    LET r == GetPublic(heap, self)
    IN /\ heap' = r.heap
       /\ last' = Call("ECDSAPrivateKey.GetPublic", self, <<>>, r.ret, NilErr)
       /\ origin' = Originate(r.heap, Nil)

CallPrivatePEMWrite ==
  \E self \in Privates(heap), public \in BOOLEAN, form \in PrivateForms :
    LET r == PrivatePEMWrite(heap, self, public, form)
    IN /\ heap' = r.heap
       /\ last' = Call("ECDSAPrivateKey.PEMWrite", self, public, r.ret, r.err)
       /\ UNCHANGED origin

CallPrivateGetKey ==
  \E self \in Privates(heap) :
    LET r == PrivateGetKey(heap, self)
    IN /\ heap' = r.heap
       /\ last' = Call("ECDSAPrivateKey.GetKey", self, <<>>, r.ret, NilErr)
       /\ UNCHANGED origin

CallPrivateIsSymmetric ==
  \E self \in Privates(heap) :
    LET r == PrivateIsSymmetric(heap, self)
    IN /\ heap' = r.heap
       /\ last' = Call("ECDSAPrivateKey.IsSymmetric", self, <<>>, r.ret, NilErr)
       /\ UNCHANGED origin

CallPrivateIsPrivate ==
  \E self \in Privates(heap) :
    LET r == PrivateIsPrivate(heap, self)
    IN /\ heap' = r.heap
       /\ last' = Call("ECDSAPrivateKey.IsPrivate", self, <<>>, r.ret, NilErr)
       /\ UNCHANGED origin

CallPrivateIsRemoteKey ==
  \E self \in Privates(heap) :
    LET r == PrivateIsRemoteKey(heap, self)
    IN /\ heap' = r.heap
       /\ last' = Call("ECDSAPrivateKey.IsRemoteKey", self, <<>>, r.ret, NilErr)
       /\ UNCHANGED origin

CallPublicPEMWrite ==
  \E self \in Publics(heap), public \in BOOLEAN :
    LET r == PublicPEMWrite(heap, self, public)
    IN /\ heap' = r.heap
       /\ last' = Call("ECDSAPublicKey.PEMWrite", self, public, r.ret, r.err)
       /\ UNCHANGED origin

CallPublicGetKey ==
  \E self \in Publics(heap) :
    LET r == PublicGetKey(heap, self)
    IN /\ heap' = r.heap
       /\ last' = Call("ECDSAPublicKey.GetKey", self, <<>>, r.ret, NilErr)
       /\ UNCHANGED origin

CallPublicIsSymmetric ==
  \E self \in Publics(heap) :
    LET r == PublicIsSymmetric(heap, self)
    IN /\ heap' = r.heap
       /\ last' = Call("ECDSAPublicKey.IsSymmetric", self, <<>>, r.ret, NilErr)
       /\ UNCHANGED origin

CallPublicIsPrivate ==
  \E self \in Publics(heap) :
    LET r == PublicIsPrivate(heap, self)
    IN /\ heap' = r.heap
       /\ last' = Call("ECDSAPublicKey.IsPrivate", self, <<>>, r.ret, NilErr)
       /\ UNCHANGED origin

CallPublicIsRemoteKey ==
  \E self \in Publics(heap) :
    LET r == PublicIsRemoteKey(heap, self)
    IN /\ heap' = r.heap
       /\ last' = Call("ECDSAPublicKey.IsRemoteKey", self, <<>>, r.ret, NilErr)
       /\ UNCHANGED origin

Next ==
  \/ CallNewECDSAPrivateKey
  \/ CallNewECDSAPrivateKeyFromKey
  \/ CallNewECDSAPublicKeyFromKey
  \/ CallNewECDSAPrivateKeyFromPEM(InputBlocks)
  \/ CallNewECDSAPublicKeyFromPEM(InputBlocks)
  \/ CallSign
  \/ CallGetPublic
  \/ CallPrivatePEMWrite
  \/ CallPrivateGetKey
  \/ CallPrivateIsSymmetric
  \/ CallPrivateIsPrivate
  \/ CallPrivateIsRemoteKey
  \/ CallPublicPEMWrite
  \/ CallPublicGetKey
  \/ CallPublicIsSymmetric
  \/ CallPublicIsPrivate
  \/ CallPublicIsRemoteKey

Spec == Init /\ [][Next]_vars

\* the FromPEM constructors alone, on every label and payload
NextPEM ==
  \/ CallNewECDSAPrivateKeyFromPEM(AllBlocks)
  \/ CallNewECDSAPublicKeyFromPEM(AllBlocks)

SpecPEM == Init /\ [][NextPEM]_vars

----------------------------------------------------------------------------
(* Error kinds *)

\* the kind of an error value, by the format that produced it
ErrorKind(e) ==
  CASE e = NilErr -> "none"
    [] e.fmt = "unsupported PEM block: %s" -> "UnsupportedPEMBlockType"
    [] e.fmt \in {"not a *ecdsa.PrivateKey: %T", "not a *ecdsa.PublicKey: %T"} -> "KeyTypeMismatch"
    [] e.fmt = "rand: read failed" -> "GenerationError"
    [] OTHER -> "DecodingError"

PrivateLabels == {"PRIVATE KEY", "EC PRIVATE KEY"}
PublicLabels == {"PUBLIC KEY", "EC PUBLIC KEY"}
AcceptedLabels == PrivateLabels \cup PublicLabels

FromPEMOps == {"NewECDSAPrivateKeyFromPEM", "NewECDSAPublicKeyFromPEM"}

\* the EC keys whose encodings are among the payloads
ECKeys == NativeKeys \cup {GenerateKey("P-256", d) : d \in Scalars}

----------------------------------------------------------------------------
(* Properties of the FromPEM constructors, under SpecPEM *)

\* C1: a block whose label is none of the four accepted ones makes either
\* FromPEM constructor return nil and an unsupported-PEM-block error that
\* carries exactly that label, whatever the payload.
C1_UnsupportedLabel ==
  (last.op \in FromPEMOps /\ last.arg.Type \notin AcceptedLabels)
    => /\ last.ret = Nil
       /\ ErrorKind(last.err) = "UnsupportedPEMBlockType"
       /\ last.err.arg = last.arg.Type

C1_Witness ==
  /\ last.op = "NewECDSAPrivateKeyFromPEM"
  /\ last.arg.Type = "CERTIFICATE"
  /\ last.arg.Bytes \in {MarshalPKCS8PrivateKey(k) : k \in NativeKeys}
  /\ last.ret = Nil
  /\ last.err = Errorf("unsupported PEM block: %s", "CERTIFICATE")

\* the key a FromPEM call decodes its payload to, by the decoder of its label
Decoded(call) ==
  IF call.arg.Type = "PRIVATE KEY" THEN ParsePKCS8PrivateKey(call.arg.Bytes)
  ELSE IF call.arg.Type = "EC PRIVATE KEY" THEN ParseECPrivateKey(call.arg.Bytes)
  ELSE ParsePKIXPublicKey(call.arg.Bytes)

\* C2: a block with a label its constructor accepts, whose payload decodes to
\* a key of another family than elliptic-curve, makes the constructor return
\* nil and a key-type-mismatch error carrying the decoded type; malformed
\* bytes under such a label give a decoding error instead, never a mismatch.
C2_KeyTypeMismatch ==
  LET own == \/ (last.op = "NewECDSAPrivateKeyFromPEM" /\ last.arg.Type \in PrivateLabels)
             \/ (last.op = "NewECDSAPublicKeyFromPEM" /\ last.arg.Type \in PublicLabels)
  IN own =>
       LET p == Decoded(last)
       IN /\ (p.err = NilErr /\ KeyTypeOf(p.key) # "KeyTypeEcdsa")
               => /\ last.ret = Nil
                  /\ ErrorKind(last.err) = "KeyTypeMismatch"
                  /\ last.err.arg = p.key.T
          /\ p.err # NilErr
               => /\ last.ret = Nil
                  /\ ErrorKind(last.err) = "DecodingError"

C2_Witness ==
  /\ last.op = "NewECDSAPrivateKeyFromPEM"
  /\ last.arg = Block("PRIVATE KEY", MarshalPKCS8PrivateKey(RSAPrivateKey(33, 7)))
  /\ last.ret = Nil
  /\ last.err = Errorf("not a *ecdsa.PrivateKey: %T", "*rsa.PrivateKey")

\* the call returned a private handle on key, with its public handle derived
ReturnsPrivate(call, key) ==
  /\ call.err = NilErr
  /\ call.ret \in Privates(heap)
  /\ heap[call.ret].key = key
  /\ heap[call.ret].public \in Publics(heap)

\* the call returned a public-only handle on key
ReturnsPublic(call, key) ==
  /\ call.err = NilErr
  /\ call.ret \in Publics(heap)
  /\ heap[call.ret].key = key

Rejects(call) ==
  /\ call.ret = Nil
  /\ call.err = Errorf("unsupported PEM block: %s", call.arg.Type)

\* C3 as stated: whichever FromPEM constructor is called, "PRIVATE KEY" is
\* decoded as PKCS#8 and "EC PRIVATE KEY" as the EC private form into a
\* private handle, "PUBLIC KEY" and "EC PUBLIC KEY" are decoded as PKIX into
\* a public-only handle, and every other label is rejected.
C3_ThreeWayDispatch ==
  last.op \in FromPEMOps =>
    /\ \A k \in ECKeys :
         /\ last.arg = Block("PRIVATE KEY", MarshalPKCS8PrivateKey(k)) => ReturnsPrivate(last, k)
         /\ last.arg = Block("EC PRIVATE KEY", MarshalECPrivateKey(k)) => ReturnsPrivate(last, k)
         /\ (last.arg.Type \in PublicLabels /\ last.arg.Bytes = MarshalPKIXPublicKey(k.PublicKey))
              => ReturnsPublic(last, k.PublicKey)
    /\ last.arg.Type \notin AcceptedLabels => Rejects(last)

\* C3 amended: the dispatch is split over the two constructors.
\* NewECDSAPrivateKeyFromPEM decodes "PRIVATE KEY" as PKCS#8 and
\* "EC PRIVATE KEY" as the EC private form (each only in its own encoding)
\* into a private handle and rejects every other label, the public ones
\* included; NewECDSAPublicKeyFromPEM decodes "PUBLIC KEY" and
\* "EC PUBLIC KEY" as PKIX into a public-only handle and rejects every other
\* label, the private ones included.  Labels match exactly.
C3_SplitDispatch ==
  /\ last.op = "NewECDSAPrivateKeyFromPEM" =>
       /\ \A k \in ECKeys :
            /\ last.arg = Block("PRIVATE KEY", MarshalPKCS8PrivateKey(k)) => ReturnsPrivate(last, k)
            /\ last.arg = Block("EC PRIVATE KEY", MarshalECPrivateKey(k)) => ReturnsPrivate(last, k)
            /\ last.arg = Block("PRIVATE KEY", MarshalECPrivateKey(k))
                 => (last.ret = Nil /\ ErrorKind(last.err) = "DecodingError")
            /\ last.arg = Block("EC PRIVATE KEY", MarshalPKCS8PrivateKey(k))
                 => (last.ret = Nil /\ ErrorKind(last.err) = "DecodingError")
       /\ last.arg.Type \notin PrivateLabels => Rejects(last)
  /\ last.op = "NewECDSAPublicKeyFromPEM" =>
       /\ \A k \in ECKeys :
            (last.arg.Type \in PublicLabels /\ last.arg.Bytes = MarshalPKIXPublicKey(k.PublicKey))
              => ReturnsPublic(last, k.PublicKey)
       /\ last.arg.Type \notin PublicLabels => Rejects(last)

C3_Witness ==
  /\ last.op = "NewECDSAPrivateKeyFromPEM"
  /\ last.arg.Type = "PUBLIC KEY"
  /\ last.arg.Bytes \in {MarshalPKIXPublicKey(k.PublicKey) : k \in NativeKeys}
  /\ Rejects(last)
  /\ \E a \in Privates(heap) :
       heap[a].key \in NativeKeys /\ heap[heap[a].public].key = heap[a].key.PublicKey

----------------------------------------------------------------------------
(* Properties of the handles, under Spec *)

PrivateConstructors ==
  {"NewECDSAPrivateKey", "NewECDSAPrivateKeyFromKey", "NewECDSAPrivateKeyFromPEM"}

\* C4: every private handle holds one public handle of its own, derived at
\* construction, with the private handle's id and usage, on the public part
\* of the private handle's key.
C4_PublicDerived ==
  /\ \A a \in Privates(heap) :
       /\ heap[a].public \in Publics(heap)
       /\ heap[heap[a].public].KeyBase.id = heap[a].KeyBase.id
       /\ heap[heap[a].public].KeyBase.usage = heap[a].KeyBase.usage
       /\ heap[heap[a].public].key = heap[a].key.PublicKey
       /\ \A b \in Privates(heap) : heap[b].public = heap[a].public => b = a
  /\ (last.op \in PrivateConstructors /\ last.ret # Nil)
       => /\ last.ret = Len(heap)
          /\ heap[last.ret].public = Len(heap) - 1

\* private handles of all three construction paths exist, one with two usages
C4_Witness ==
  /\ \E a \in Privates(heap) :
       /\ heap[a].key = GenerateKey("P-256", 2)
       /\ heap[a].KeyBase.usage = <<"Sign", "Verify">>
       /\ heap[heap[a].public].KeyBase.usage = <<"Sign", "Verify">>
       /\ heap[heap[a].public].KeyBase.id = "k2"
  /\ \E a \in Privates(heap) : heap[a].key \in NativeKeys
  /\ last.op = "NewECDSAPrivateKeyFromPEM" /\ last.ret \in Privates(heap)

\* C5 as stated: IsPrivate is false on every public handle and true on every
\* private handle.
C5_IsPrivate ==
  /\ last.op = "ECDSAPublicKey.IsPrivate" => last.ret = FALSE
  /\ last.op = "ECDSAPrivateKey.IsPrivate" => last.ret = TRUE

\* C6 as stated: the keyType of every handle is the family of its key
\* material, the elliptic-curve one.
C6_KeyTypeIsFamily ==
  \A a \in DOMAIN heap :
    /\ heap[a].KeyBase.keyType = KeyTypeOf(heap[a].key)
    /\ heap[a].KeyBase.keyType \notin {"KeyTypeRsa", "KeyTypeSymmetric"}

\* C7: no call changes a handle that exists: every field of every handle,
\* the cached public handle included, is what it was at construction; and
\* GetPublic returns that cached public handle, without an error.
C7_Immutable ==
  [][/\ \A a \in DOMAIN heap : a \in DOMAIN heap' /\ heap'[a] = heap[a]
     /\ last'.op = "ECDSAPrivateKey.GetPublic"
          => /\ last'.ret = heap[last'.self].public
             /\ last'.ret \in Publics(heap)
             /\ last'.err = NilErr]_vars

C7_Witness ==
  /\ last.op = "ECDSAPrivateKey.GetPublic"
  /\ last.ret = heap[last.self].public
  /\ Cardinality(Privates(heap)) = 2
  /\ heap[last.ret].KeyBase.id = heap[last.self].KeyBase.id
  /\ origin[last.self] \in Privates(heap)

\* the private block of what a private handle's PEMWrite wrote
IsPrivateBlock(block) == block.Type \in PrivateLabels

\* b was built from the private block that o wrote, with o's id and usage
RoundTrip(o, b) ==
  /\ b \in Privates(heap)
  /\ origin[b] = o
  /\ o \in Privates(heap)
  /\ heap[b].KeyBase.id = heap[o].KeyBase.id
  /\ heap[b].KeyBase.usage = heap[o].KeyBase.usage

\* C8 as stated: the handle read back from a private handle's own PEM export
\* signs a digest to the very bytes the original signs it to (and exports
\* the same public PEM).
C8_SignIdentical ==
  [][(/\ last.op = "ECDSAPrivateKey.Sign"
      /\ last'.op = "ECDSAPrivateKey.Sign"
      /\ last'.arg = last.arg
      /\ RoundTrip(last.self, last'.self))
       => /\ last'.ret = last.ret
          /\ PublicPEMWrite(heap, heap[last'.self].public, FALSE).ret
               = PublicPEMWrite(heap, heap[last.self].public, FALSE).ret]_vars

\* C8 amended: reading back a private handle's own PEM export, under the
\* label it was written with, succeeds; the handle read back holds the same
\* key material and exports the same public PEM as the original, and every
\* signature it makes over a digest verifies under the original's public
\* key.  The signature bytes are not the same from call to call: they depend
\* on the nonce drawn from the entropy source.
C8_RoundTrip ==
  /\ (/\ last.op = "NewECDSAPrivateKeyFromPEM"
      /\ last.self \in Privates(heap)
      /\ IsPrivateBlock(last.arg))
       => /\ last.err = NilErr
          /\ last.ret \in Privates(heap)
          /\ heap[last.ret].key = heap[last.self].key
  /\ \A o, b \in Privates(heap) :
       RoundTrip(o, b)
         => /\ heap[b].key = heap[o].key
            /\ PublicPEMWrite(heap, heap[b].public, FALSE).ret
                 = PublicPEMWrite(heap, heap[o].public, FALSE).ret
            /\ (last.op = "ECDSAPrivateKey.Sign" /\ last.self = b)
                 => /\ last.err = NilErr
                    /\ Verify(heap[heap[o].public].key, last.arg, last.ret)
            /\ (last.op = "ECDSAPrivateKey.Sign" /\ last.self = o)
                 => Verify(heap[heap[b].public].key, last.arg, last.ret)

\* a generated key was exported, read back, and the handle read back signed
C8_Witness ==
  /\ last.op = "ECDSAPrivateKey.Sign"
  /\ RoundTrip(origin[last.self], last.self)
  /\ heap[origin[last.self]].key = GenerateKey("P-256", 2)
  /\ Verify(heap[heap[origin[last.self]].public].key, last.arg, last.ret)

\* C9: the keySize of every handle is the bit size of the curve of its key
\* material, and a private handle and its public handle have the same.
C9_KeySize ==
  /\ \A a \in Publics(heap) : heap[a].KeyBase.keySize = Params(heap[a].key.Curve).BitSize
  /\ \A a \in Privates(heap) :
       /\ heap[a].KeyBase.keySize = Params(heap[a].key.PublicKey.Curve).BitSize
       /\ heap[a].KeyBase.keySize = heap[heap[a].public].KeyBase.keySize

C9_Witness ==
  /\ \E a \in Privates(heap) :
       heap[a].KeyBase.keySize = 384 /\ heap[heap[a].public].KeyBase.keySize = 384
  /\ \E a \in Privates(heap) :
       heap[a].KeyBase.keySize = 256 /\ heap[heap[a].public].KeyBase.keySize = 256

\* C10 as stated: the key NewECDSAPrivateKey generates, and the keySize of
\* the handle it returns, have the bit size asked for.
C10_HonoursBits ==
  (last.op = "NewECDSAPrivateKey" /\ last.ret # Nil)
    => /\ heap[last.ret].KeyBase.keySize = last.arg
       /\ Params(heap[last.ret].key.PublicKey.Curve).BitSize = last.arg

====
